---- MODULE Spec2Model ----
(***************************************************************************)
(* BucketBatchSampler of src/models/data_loader.py, with the samplers it   *)
(* is composed of (SequentialSampler / RandomSampler, BatchSampler,        *)
(* SortedSampler, SubsetRandomSampler).                                    *)
(*                                                                         *)
(* Dataset indices are 0-based as in the Python code; TLA+ sequences are   *)
(* 1-based, so index i of a Python list s is s[i + 1] here (see At).       *)
(* An emitted batch is recorded as the list of global dataset indices      *)
(* whose items are handed to collate_fn, in the order they are handed.     *)
(***************************************************************************)
EXTENDS Integers, Sequences, FiniteSets

VARIABLES dataset, args, passes, sampler, iters, fetched

vars == <<dataset, args, passes, sampler, iters, fetched>>

\* ---------------------------------------------------------------- bounds

\* Largest dataset length explored with one pass.
MaxN == 3
\* Largest dataset length explored with two interleaved passes.
MaxN2 == 2
\* Largest batch_size argument.
MaxBatch == 2
\* Largest bucket_size_multiplier argument.
MaxMult == 2
\* Items are the naturals 0..MaxItem.
MaxItem == 1

\* ---------------------------------------------------------------- helpers

Min(a, b) == IF a <= b THEN a ELSE b

\* s[i] of a Python list s.
At(s, i) == s[i + 1]

\* len(self.dataset)
DatasetLen == Len(dataset)

\* self.dataset[i]
GetItem(i) == At(dataset, i)

\* Variant of identity: a key that ignores the item.
identity_const(x) == 0

\* identity, the default sort key.
identity(x) == x

\* self.sort_key(row): the default, and the key of SortedSampler's docstring
\* example, lambda i: -i.
SortKeys == {"identity", "neg"}

ApplySortKey(sk, row) ==
    CASE sk = "identity" -> identity(row)
      [] sk = "neg" -> 0 - row

\* All orders in which the elements of S can be drawn without replacement.
RECURSIVE Orders(_)
Orders(S) ==
    IF S = {} THEN {<<>>}
    ELSE UNION {{<<x>> \o p : p \in Orders(S \ {x})} : x \in S}

\* Variant of RandPerm: n draws from 1..n with replacement.
RandPerm_replacement(n) == [1..n -> 1..n]

\* torch.randperm(n), as the sequences over 1..n it can return.
RandPerm(n) == Orders(1..n)

\* iter(SequentialSampler(dataset)): 0, 1, ..., n-1.
SequentialSamplerIter(n) == [i \in 1..n |-> i - 1]

\* iter(RandomSampler(dataset)): any permutation of 0..n-1.
RandomSamplerIter(n) == {[i \in 1..n |-> p[i] - 1] : p \in RandPerm(n)}

\* Variant of SamplerIter: a RandomSampler whatever `shuffle` is.
SamplerIter_alwaysRandom(shuffle, n) == RandomSamplerIter(n)

\* iter(self.sampler): the sampler chosen by `shuffle` in __init__.
SamplerIter(shuffle, n) ==
    IF shuffle THEN RandomSamplerIter(n) ELSE {SequentialSamplerIter(n)}

\* torch's BatchSampler.__iter__: accumulate `batch`, yield it when it is
\* batch_size long, and at the end yield the rest unless drop_last.
RECURSIVE BatchLoop(_, _, _, _)
BatchLoop(s, batch, batch_size, drop_last) ==
    IF s = <<>>
    THEN IF Len(batch) > 0 /\ ~drop_last THEN <<batch>> ELSE <<>>
    ELSE LET b == Append(batch, Head(s))
         IN IF Len(b) = batch_size
            THEN <<b>> \o BatchLoop(Tail(s), <<>>, batch_size, drop_last)
            ELSE BatchLoop(Tail(s), b, batch_size, drop_last)

\* list(BatchSampler(s, batch_size, drop_last))
BatchSamplerList(s, batch_size, drop_last) ==
    BatchLoop(s, <<>>, batch_size, drop_last)

\* sorted(zip_, key=lambda r: r[1]) by stable insertion: r goes behind every
\* pair whose key is <= its own.
\* Variant of InsertStable: r goes in front of the pairs with its own key.
RECURSIVE InsertStable_before(_, _)
InsertStable_before(sorted, r) ==
    IF sorted = <<>> THEN <<r>>
    ELSE IF Head(sorted)[2] < r[2]
         THEN <<Head(sorted)>> \o InsertStable_before(Tail(sorted), r)
         ELSE <<r>> \o sorted

RECURSIVE InsertStable(_, _)
InsertStable(sorted, r) ==
    IF sorted = <<>> THEN <<r>>
    ELSE IF Head(sorted)[2] <= r[2]
         THEN <<Head(sorted)>> \o InsertStable(Tail(sorted), r)
         ELSE <<r>> \o sorted

RECURSIVE SortedByKey(_)
SortedByKey(zip) ==
    IF zip = <<>> THEN <<>>
    ELSE InsertStable(SortedByKey(SubSeq(zip, 1, Len(zip) - 1)), zip[Len(zip)])

\* Variant of SortedSampler: the positions in their order of occurrence.
SortedSampler_unsorted(data, sk) == [i \in 1..Len(data) |-> i - 1]

\* SortedSampler(data, sort_key).sorted_indexes: 0-based positions in data.
SortedSampler(data, sk) ==
    LET zip == [i \in 1..Len(data) |-> <<i - 1, ApplySortKey(sk, data[i])>>]
        srt == SortedByKey(zip)
    IN [i \in 1..Len(srt) |-> srt[i][1]]

\* torch's BatchSampler.__init__ accepts only a positive batch_size.
BatchSizeOk(batch_size) == batch_size > 0

\* Variant of BucketSize: a size below 1 is raised to 1.
BucketSize_coerced(batch_size, mult, n) ==
    IF Min(batch_size * mult, n) <= 0 THEN 1 ELSE Min(batch_size * mult, n)

\* The batch size of self.bucket_sampler.
BucketSize(batch_size, mult, n) == Min(batch_size * mult, n)

\* Variant of BucketDropLast: the bucket sampler drops a short last bucket.
BucketDropLast_true == TRUE

\* The drop_last of self.bucket_sampler.
BucketDropLast == FALSE

\* ---------------------------------------------------------------- state

NoSampler(state) ==
    [state |-> state, batch_size |-> 0, drop_last |-> FALSE,
     sort_key |-> "identity", shuffle |-> FALSE, bucket_size |-> 0]

\* Variant of NewGenerator: the new generator goes on from the cursor (the
\* permutation, the place in it, the batches pending) of the one made before.
NewGenerator_shared(others) ==
    IF others = <<>>
    THEN [pc |-> "start", perm |-> <<>>, pos |-> 0, bucket |-> <<>>,
          pending |-> <<>>, out |-> <<>>]
    ELSE [others[Len(others)] EXCEPT !.out = <<>>]

\* A generator object returned by __iter__, before its first next().
NewGenerator(others) ==
    [pc |-> "start", perm |-> <<>>, pos |-> 0, bucket |-> <<>>,
     pending |-> <<>>, out |-> <<>>]

\* Every dataset of at most maxn items whose items are 0..m for some m: the
\* sort keys compare items and never look at their values, and every
\* dataset over 0..MaxItem has the items of one of these in the same order.
Datasets(maxn) ==
    UNION {{d \in [1..n -> 0..MaxItem] :
               \A v \in 0..MaxItem :
                   (\E i \in 1..n : d[i] = v) =>
                       \A u \in 0..v : \E i \in 1..n : d[i] = u}
           : n \in 0..maxn}

\* One dataset per length, its items descending cyclically (so that sorting
\* reorders it, and items tie once the length exceeds MaxItem + 1).
DatasetsTwo(maxn) ==
    {[i \in 1..n |-> (n - i) % (MaxItem + 1)] : n \in 0..maxn}

ArgSets ==
    [batch_size : (0 - 1)..MaxBatch, drop_last : BOOLEAN, shuffle : BOOLEAN,
     sort_key : SortKeys, bucket_size_multiplier : (0 - 1)..MaxMult]

InitWith(datasets, argsets, npasses) ==
    /\ dataset \in datasets
    /\ args \in argsets
    /\ passes = npasses
    /\ sampler = NoSampler("new")
    /\ iters = <<>>
    /\ fetched = 0

Init == InitWith(Datasets(MaxN), ArgSets, 1)

InitTwo == InitWith(DatasetsTwo(MaxN2), ArgSets, 2)

\* ---------------------------------------------------------------- actions

\* BucketBatchSampler.__init__
Construct ==
    /\ sampler.state = "new"
    /\ LET n == DatasetLen
           bsz == BucketSize(args.batch_size, args.bucket_size_multiplier, n)
       IN sampler' =
            IF BatchSizeOk(args.batch_size) /\ BatchSizeOk(bsz)
            THEN [state |-> "ok", batch_size |-> args.batch_size,
                  drop_last |-> args.drop_last, sort_key |-> args.sort_key,
                  shuffle |-> args.shuffle, bucket_size |-> bsz]
            ELSE NoSampler("error")
    /\ UNCHANGED <<dataset, args, passes, iters, fetched>>

\* BucketBatchSampler.__len__
SamplerLen ==
    IF sampler.drop_last
    THEN DatasetLen \div sampler.batch_size
    ELSE (DatasetLen + sampler.batch_size - 1) \div sampler.batch_size

\* iter(sampler): a new generator; nothing of its body has run yet.
Iter ==
    /\ sampler.state = "ok"
    /\ Len(iters) < passes
    /\ iters' = Append(iters, NewGenerator(iters))
    /\ UNCHANGED <<dataset, args, passes, sampler, fetched>>

\* The buckets still to come from position pos of the permutation.
BucketsFrom(perm, pos) ==
    BatchSamplerList(SubSeq(perm, pos + 1, Len(perm)), sampler.bucket_size,
                     BucketDropLast)

\* The batches of one bucket, before SubsetRandomSampler reorders them.
BucketBatches(bucket) ==
    BatchSamplerList(
        SortedSampler([j \in 1..Len(bucket) |-> GetItem(bucket[j])],
                      sampler.sort_key),
        sampler.batch_size, sampler.drop_last)

\* The leading buckets that yield no batch at all.
RECURSIVE EmptyPrefix(_)
EmptyPrefix(buckets) ==
    IF buckets = <<>> \/ BucketBatches(Head(buckets)) # <<>> THEN 0
    ELSE 1 + EmptyPrefix(Tail(buckets))

RECURSIVE SumLen(_)
SumLen(ss) == IF ss = <<>> THEN 0 ELSE Len(Head(ss)) + SumLen(Tail(ss))

\* Variant of Resolve: [self.dataset[i] for i in batch].
Resolve_direct(bucket, batch) == batch

\* [self.dataset[bucket[i]] for i in batch], as global indices
Resolve(bucket, batch) == [j \in 1..Len(batch) |-> At(bucket, batch[j])]

\* next(generator): run the body of __iter__ up to its next yield, or to its
\* end.
GeneratorNext(g) ==
    /\ g \in DOMAIN iters
    /\ iters[g].pc # "done"
    /\ \E perm \in (IF iters[g].pc = "start"
                    THEN SamplerIter(sampler.shuffle, DatasetLen)
                    ELSE {iters[g].perm}) :
         LET it == iters[g]
         IN IF it.pending # <<>>
            THEN \* the inner for loop goes on: yield the next batch
                 /\ iters' = [iters EXCEPT ![g] =
                       [it EXCEPT !.pending = Tail(it.pending),
                                  !.out = Append(it.out,
                                      Resolve(it.bucket, Head(it.pending)))]]
                 /\ fetched' = fetched + Len(Head(it.pending))
            ELSE \* the outer for loop takes buckets until one has a batch
                 LET buckets == BucketsFrom(perm, it.pos)
                     skip == EmptyPrefix(buckets)
                     seen == SubSeq(buckets, 1, Min(skip + 1, Len(buckets)))
                 IN IF skip = Len(buckets)
                    THEN /\ iters' = [iters EXCEPT ![g] =
                               [it EXCEPT !.pc = "done", !.perm = perm,
                                          !.pos = it.pos + SumLen(seen),
                                          !.bucket = <<>>]]
                         /\ fetched' = fetched + SumLen(seen)
                    ELSE LET bucket == buckets[skip + 1]
                             batches == BucketBatches(bucket)
                         IN \E order \in RandPerm(Len(batches)) :
                              LET shuffled == [j \in 1..Len(batches) |->
                                                 batches[order[j]]]
                              IN /\ iters' = [iters EXCEPT ![g] =
                                       [it EXCEPT
                                          !.pc = "running", !.perm = perm,
                                          !.pos = it.pos + SumLen(seen),
                                          !.bucket = bucket,
                                          !.pending = Tail(shuffled),
                                          !.out = Append(it.out,
                                              Resolve(bucket, Head(shuffled)))]]
                                 /\ fetched' = fetched + SumLen(seen)
                                                + Len(Head(shuffled))
    /\ UNCHANGED <<dataset, args, passes, sampler>>

Next ==
    \/ Construct
    \/ Iter
    \/ \E g \in 1..passes : GeneratorNext(g)

Spec == Init /\ [][Next]_vars

SpecTwo == InitTwo /\ [][Next]_vars

\* ---------------------------------------------------------------- properties

RECURSIVE Flatten(_)
Flatten(ss) == IF ss = <<>> THEN <<>> ELSE Head(ss) \o Flatten(Tail(ss))

\* The generators that have run.
Started == {g \in DOMAIN iters : iters[g].pc # "start"}

\* The generators whose pass is over.
Finished == {g \in DOMAIN iters : iters[g].pc = "done"}

\* The 1-based place of index x in the permutation of pass g.
PosIn(g, x) == CHOOSE p \in 1..Len(iters[g].perm) : iters[g].perm[p] = x

\* The number of the bucket (from 0) that index x falls in, in pass g.
BucketOf(g, x) == (PosIn(g, x) - 1) \div sampler.bucket_size

\* The indices of bucket k of pass g.
BucketSet(g, k) ==
    {x \in 0..(DatasetLen - 1) : BucketOf(g, x) = k}

\* The sort key of the item at index x.
KeyOf(x) ==
    IF sampler.sort_key = "identity" THEN dataset[x + 1] ELSE 0 - dataset[x + 1]

ValidArgs == args.batch_size >= 1 /\ args.bucket_size_multiplier >= 1

\* C1: in a pass over a non-empty dataset no index is emitted twice; when the
\* pass is over, with drop_last=false every index of [0, N) has been emitted,
\* and with drop_last=true fewer than batch_size indices are in no batch.
C1_EachIndexOnce ==
    \A g \in Started :
        LET flat == Flatten(iters[g].out)
        IN /\ \A i, j \in 1..Len(flat) : flat[i] = flat[j] => i = j
           /\ \A i \in 1..Len(flat) : flat[i] \in 0..(DatasetLen - 1)
           /\ g \in Finished =>
                IF sampler.drop_last
                THEN DatasetLen - Len(flat) < sampler.batch_size
                ELSE Len(flat) = DatasetLen

C1_Witness ==
    \E g \in Finished :
        /\ sampler.shuffle /\ sampler.drop_last
        /\ Len(iters[g].out) >= 1
        /\ Len(Flatten(iters[g].out)) < DatasetLen
        /\ DatasetLen > sampler.bucket_size

\* C2: a finished pass over a non-empty dataset has emitted as many batches as
\* __len__ reports: floor(N / batch_size) when drop_last, else
\* ceil(N / batch_size), whatever the bucket_size_multiplier.
C2_BatchCount ==
    \A g \in Finished :
        LET n == DatasetLen
            bs == args.batch_size
            floor == CHOOSE k \in 0..n : k * bs <= n /\ n < (k + 1) * bs
            ceil == CHOOSE k \in 0..n : (k - 1) * bs < n /\ n <= k * bs
        IN /\ Len(iters[g].out) = SamplerLen
           /\ SamplerLen = IF args.drop_last THEN floor ELSE ceil

C2_Witness ==
    \E g \in Finished :
        /\ sampler.drop_last
        /\ DatasetLen > sampler.bucket_size
        /\ DatasetLen % sampler.batch_size # 0
        /\ Len(iters[g].out) >= 1

\* C5: for an empty dataset and valid arguments, construction raises no error,
\* __len__ reports 0 and a pass emits no batch.
C5_EmptyDatasetNoError ==
    (DatasetLen = 0 /\ ValidArgs /\ sampler.state # "new") =>
        /\ sampler.state = "ok"
        /\ SamplerLen = 0
        /\ \A g \in Finished : iters[g].out = <<>>

\* C6: batch_size <= 0 or bucket_size_multiplier <= 0 is rejected by the
\* constructor: it ends in an error, no sampler exists to iterate, and no item
\* has been fetched.
C6_InvalidArgsRejected ==
    (~ValidArgs /\ sampler.state # "new") =>
        /\ sampler.state = "error"
        /\ iters = <<>>
        /\ fetched = 0

C6_Witness ==
    /\ sampler.state = "error"
    /\ args.batch_size >= 1
    /\ args.bucket_size_multiplier <= 0
    /\ DatasetLen >= 1

\* C9: the permutation is cut into consecutive buckets of
\* min(batch_size * bucket_size_multiplier, N) indices, only the last one
\* possibly shorter; a batch takes its indices from one bucket, and the
\* batches of a bucket are emitted before those of the next bucket (with
\* shuffle=false the buckets are those of the dataset order).
C9_Buckets ==
    /\ sampler.state = "ok" =>
         sampler.bucket_size =
             Min(args.batch_size * args.bucket_size_multiplier, DatasetLen)
    /\ \A g \in Started :
         LET it == iters[g]
             size == sampler.bucket_size
         IN /\ it.pc = "running" =>
                 /\ Len(it.bucket) >= 1
                 /\ it.bucket =
                      SubSeq(it.perm, it.pos - Len(it.bucket) + 1, it.pos)
                 /\ (it.pos - Len(it.bucket)) % size = 0
                 /\ Len(it.bucket) = size \/ it.pos = DatasetLen
            /\ it.pc = "done" => it.pos = DatasetLen
            /\ \A m \in 1..Len(it.out) :
                 /\ \A j \in 1..Len(it.out[m]) :
                      BucketOf(g, it.out[m][j]) = BucketOf(g, it.out[m][1])
                 /\ m > 1 => BucketOf(g, it.out[m - 1][1])
                               <= BucketOf(g, it.out[m][1])
            /\ ~sampler.shuffle =>
                 \A x \in 0..(DatasetLen - 1) : BucketOf(g, x) = x \div size

C9_Witness ==
    \E g \in Finished :
        /\ sampler.shuffle
        /\ DatasetLen > sampler.bucket_size
        /\ sampler.bucket_size > sampler.batch_size
        /\ DatasetLen % sampler.bucket_size # 0
        /\ Len(iters[g].out) >= 3

\* The keys do not decrease along the dataset order: sorting a run of
\* consecutive indices leaves it as it is.
NoReordering ==
    \A x, y \in 0..(DatasetLen - 1) : x < y => KeyOf(x) <= KeyOf(y)

\* The statement of C3 as claimed: with shuffle=false and a key that induces
\* no reordering, a finished pass has emitted 0, 1, 2, ... in this order and
\* only its last batch may be smaller than batch_size.
C3_StrictDatasetOrder ==
    \A g \in Finished :
        (~sampler.shuffle /\ NoReordering) =>
            LET out == iters[g].out
                flat == Flatten(out)
            IN /\ \A i \in 1..Len(flat) : flat[i] = i - 1
               /\ \A m \in 1..(Len(out) - 1) : Len(out[m]) = sampler.batch_size

\* C3 (amended): with shuffle=false and a key that induces no reordering,
\* every emitted batch is a run of consecutive ascending dataset indices that
\* starts at a multiple of batch_size, the buckets come out in dataset order,
\* and at most one batch is smaller than batch_size; the batches of one bucket
\* come out in an arbitrary order, so that the concatenation is 0, 1, 2, ...
\* when every bucket holds a single batch (bucket size <= batch_size).
C3_RunsInBucketOrder ==
    \A g \in Started :
        (~sampler.shuffle /\ NoReordering) =>
            LET out == iters[g].out
                flat == Flatten(out)
                bs == sampler.batch_size
            IN /\ \A m \in 1..Len(out) :
                    /\ out[m][1] % bs = 0
                    /\ \A j \in 1..Len(out[m]) : out[m][j] = out[m][1] + j - 1
                    /\ Len(out[m]) = bs \/ out[m][Len(out[m])] = DatasetLen - 1
                    /\ m > 1 => out[m - 1][1] \div sampler.bucket_size
                                   <= out[m][1] \div sampler.bucket_size
               /\ Cardinality({m \in 1..Len(out) : Len(out[m]) < bs}) <= 1
               /\ sampler.bucket_size <= bs =>
                    \A i \in 1..Len(flat) : flat[i] = i - 1

C3_Witness ==
    \E g \in Finished :
        /\ ~sampler.shuffle /\ NoReordering
        /\ Len(iters[g].out) >= 2
        /\ Len(iters[g].out[1]) < sampler.batch_size
        /\ iters[g].out[1][1] > 0

\* The statement of C4 as claimed: with shuffle=false two finished passes have
\* emitted the same sequence of batches.
C4_SameSequence ==
    \A g, h \in Finished :
        ~sampler.shuffle => iters[g].out = iters[h].out

\* C4 (amended): with shuffle=false two finished passes have emitted the same
\* batches (same indices in the same order inside each batch) and the same
\* number of them, the m-th batches of both coming from the same bucket; the
\* order of the batches of one bucket is drawn anew in each pass, so that the
\* two sequences are equal when every bucket holds a single batch.
C4_SameBatches ==
    \A g, h \in Finished :
        ~sampler.shuffle =>
            LET a == iters[g].out
                b == iters[h].out
            IN /\ Len(a) = Len(b)
               /\ {a[m] : m \in 1..Len(a)} = {b[m] : m \in 1..Len(b)}
               /\ \A m \in 1..Len(a) :
                    BucketOf(g, a[m][1]) = BucketOf(h, b[m][1])
               /\ sampler.bucket_size <= sampler.batch_size => a = b

C4_Witness ==
    /\ Finished = {1, 2}
    /\ ~sampler.shuffle
    /\ Len(iters[1].out) >= 2
    /\ iters[1].out # iters[2].out

KeyAt(g, p) == KeyOf(iters[g].perm[p])

\* The places of the permutation that make up the bucket of place p.
BucketPlaces(p) ==
    LET size == sampler.bucket_size
        first == ((p - 1) \div size) * size + 1
    IN first..Min(first + size - 1, DatasetLen)

\* How many of the places in S come before place p in the stable ascending
\* sort by key: a smaller key, or the same key and an earlier place.
RankIn(g, S, p) ==
    Cardinality({q \in S : \/ KeyAt(g, q) < KeyAt(g, p)
                           \/ KeyAt(g, q) = KeyAt(g, p) /\ q < p})

\* C8: the batches emitted for a bucket are the consecutive batch_size-sized
\* chunks of its stable ascending sort by key (minus the short chunk when
\* drop_last), each batch in sorted order; the key ranges of two batches of a
\* bucket do not interleave; when one bucket holds the whole dataset the
\* batches are the chunks of the stable sort of all indices.
C8_ChunksOfStableSort ==
    \A g \in Started :
        LET out == iters[g].out
            bs == sampler.batch_size
            keys(b) == {KeyOf(b[j]) : j \in 1..Len(b)}
            below(b, c) == \A u \in keys(b) : \A v \in keys(c) : u <= v
        IN /\ \A m \in 1..Len(out) :
                LET b == out[m]
                    p1 == PosIn(g, b[1])
                    places == BucketPlaces(p1)
                    c == RankIn(g, places, p1) \div bs
                IN /\ \A j \in 1..Len(b) :
                        LET p == PosIn(g, b[j])
                        IN /\ p \in places
                           /\ RankIn(g, places, p) = c * bs + j - 1
                           /\ sampler.bucket_size = DatasetLen =>
                                RankIn(g, 1..DatasetLen, p) = c * bs + j - 1
                   /\ Len(b) = Min(bs, Cardinality(places) - c * bs)
                   /\ sampler.drop_last => Len(b) = bs
                   /\ \A n \in 1..(m - 1) :
                        PosIn(g, out[n][1]) \in places =>
                            /\ out[n][1] # b[1]
                            /\ below(out[n], b) \/ below(b, out[n])
           /\ g \in Finished =>
                \A p \in 1..DatasetLen :
                    LET places == BucketPlaces(p)
                        c == RankIn(g, places, p) \div bs
                    IN (~sampler.drop_last
                          \/ (c + 1) * bs <= Cardinality(places)) =>
                           \E m \in 1..Len(out) :
                               \E j \in 1..Len(out[m]) :
                                   out[m][j] = iters[g].perm[p]

C8_Witness ==
    \E g \in Finished :
        /\ sampler.shuffle
        /\ sampler.sort_key = "neg"
        /\ Len(iters[g].out) >= 2
        /\ Len(iters[g].out[1]) >= 2
        /\ \E x, y \in 0..(DatasetLen - 1) :
               /\ BucketOf(g, x) = BucketOf(g, y)
               /\ PosIn(g, x) < PosIn(g, y)
               /\ KeyOf(y) < KeyOf(x)
        /\ \E x, y \in 0..(DatasetLen - 1) :
               /\ x # y
               /\ BucketOf(g, x) = BucketOf(g, y)
               /\ KeyOf(y) = KeyOf(x)

\* C10: two passes over one sampler do not interfere: however their requests
\* interleave, each finished pass has emitted every index once (all of them
\* with drop_last=false, all but fewer than batch_size otherwise) in as many
\* batches as __len__ reports, and the sampler's configuration is the one it
\* was constructed with.
C10_IndependentPasses ==
    /\ sampler.state = "ok" =>
         /\ sampler.batch_size = args.batch_size
         /\ sampler.drop_last = args.drop_last
         /\ sampler.sort_key = args.sort_key
         /\ sampler.shuffle = args.shuffle
         /\ sampler.bucket_size =
              Min(args.batch_size * args.bucket_size_multiplier, DatasetLen)
    /\ \A g \in Finished :
         LET flat == Flatten(iters[g].out)
             bs == args.batch_size
         IN /\ \A i, j \in 1..Len(flat) : flat[i] = flat[j] => i = j
            /\ Len(flat) =
                 IF args.drop_last THEN bs * (DatasetLen \div bs)
                 ELSE DatasetLen
            /\ Len(iters[g].out) = SamplerLen
    /\ \A g \in DOMAIN iters :
         iters[g].pc = "start" => iters[g].out = <<>> /\ iters[g].pos = 0

C10_Witness ==
    /\ Len(iters) = 2
    /\ iters[1].pc = "running"
    /\ Len(iters[1].out) = 1
    /\ iters[2].pc = "done"
    /\ Len(iters[2].out) >= 2
    /\ sampler.shuffle
    /\ iters[1].perm # iters[2].perm

====
